---- MODULE Spec2Model ----
(***************************************************************************)
(* Synapse backend: the session broadcaster (SocketManager), its physics   *)
(* broadcast loop and the force simulation (PhysicsEngine).                *)
(***************************************************************************)
EXTENDS Integers, Sequences, FiniteSets, TLC

(***************************************************************************)
(* Bounds of the session model.                                            *)
(***************************************************************************)
NumSids == 2
NumWorkspaces == 2

Sids == 1..NumSids
Workspaces == 1..NumWorkspaces

\* Python None: an absent 'workspace_id' in the event data or in user_info.
None == 0
\* The 'user_name' key is not set by connect; it appears with the first join.
NoName == "<unset>"
Anonymous == "Anonymous"
\* user_name values a client sends; an absent one defaults to Anonymous.
UserNames == {"Alice", Anonymous}

PointEvents == {"item_created", "item_updated", "item_deleted", "item_moved", "cursor_move"}

VARIABLES
    conn,             \* sid -> "new" | "open" | "closed": the transport's view of a connection
    user_info,        \* SocketManager.user_info: sid -> [workspace_id, user_name]
    workspace_users,  \* SocketManager.workspace_users: insertion-ordered dict workspace -> set of sids
    rooms,            \* the Socket.IO server's room table, the target of emit(room=...)
    last              \* what the last handler did: its locals, its emit and its return value

session_vars == <<conn, user_info, workspace_users, rooms, last>>

VARIABLES
    is_running,       \* SocketManager.is_running
    loop_pc,          \* where the task running start_physics_loop stands
    key_iter,         \* the iterator of `for workspace_id in self.workspace_users.keys()`
    tick,             \* the current pass of the while loop and what it has emitted so far
    stopped,          \* stop_physics_loop() has been called
    events            \* the number of handlers that have run beside the loop task

loop_vars == <<is_running, loop_pc, key_iter, tick, stopped, events>>

VARIABLES
    bodies,           \* PhysicsEngine.bodies: insertion-ordered dict, as the sequence of its values
    ticks,            \* the number of step() calls so far
    calls,            \* the number of add_body, remove_body and update_body_position calls so far
    step_out,         \* what the last step() call did: returned or raised, and its updates
    call              \* the last registry operation: its arguments, the registry before it, its result

physics_vars == <<bodies, ticks, calls, step_out, call>>

VARIABLES
    built             \* the last compute_clusters call: its arguments, the labels, its result

cluster_vars == <<built>>

VARIABLES
    frames,           \* sid -> the handlers of this connection that are suspended at an await
    moved,            \* the data of the last item_moved event and when it was handled
    stepping,         \* inside a step() call: the index of the body its for loop visits next
    forces            \* per body the last step() visited: the force each other body put on it

detail_vars == <<frames, moved, stepping, forces>>

VARIABLES
    store,            \* the database rows of one workspace: its embedded items and their clusters
    response          \* the last request to the compute route and what it answered

route_vars == <<store, response>>

(***************************************************************************)
(* workspace_users is a Python dict: keys keep their insertion order.      *)
(***************************************************************************)
Keys(d) == {d[i].id : i \in DOMAIN d}

Users(d, w) == d[CHOOSE i \in DOMAIN d : d[i].id = w].users

\* A discard that removes nothing.
Discard_Noop(d, w, sid) == d

\* self.workspace_users[w].discard(sid)
Discard(d, w, sid) ==
    [i \in DOMAIN d |-> IF d[i].id = w THEN [d[i] EXCEPT !.users = @ \ {sid}] ELSE d[i]]

\* if w not in self.workspace_users: self.workspace_users[w] = set()
\* self.workspace_users[w].add(sid)
AddUser(d, w, sid) ==
    IF w \in Keys(d)
    THEN [i \in DOMAIN d |-> IF d[i].id = w THEN [d[i] EXCEPT !.users = @ \cup {sid}] ELSE d[i]]
    ELSE Append(d, [id |-> w, users |-> {sid}])

\* The member set of room w (empty for a room that was never created).
Members(w) == IF w \in Keys(workspace_users) THEN Users(workspace_users, w) ELSE {}

\* The rooms whose member set contains sid.
RoomsOf(sid) == {w \in Keys(workspace_users) : sid \in Members(w)}

\* self.user_info.get(sid, {}).get('workspace_id')
InfoWorkspace(info, sid) == IF sid \in DOMAIN info THEN info[sid].workspace_id ELSE None

\* self.user_info.get(uid, {}).get('user_name', 'Anonymous')
InfoName(info, uid) ==
    IF uid \in DOMAIN info /\ info[uid].user_name # NoName THEN info[uid].user_name ELSE Anonymous

\* sio.emit(event, ..., room=w, skip_sid=sid): the recipients.
Recipients(rm, w, sid) == rm[w] \ {sid}

NoEmit == [event |-> "none", room |-> None, to |-> {}]

\* The record a handler leaves in last; pre is the set of rooms that held
\* sid when the handler started.
Done(op, sid, ws, old, emit, ok, others) ==
    [op |-> op, sid |-> sid, ws |-> ws, old |-> old, pre |-> RoomsOf(sid),
     emit |-> emit, ok |-> ok, others |-> others]

\* The state a handler leaves behind.
After(c, info, wu, rm, l) ==
    [conn |-> c, user_info |-> info, workspace_users |-> wu, rooms |-> rm, last |-> l]

SessionInit ==
    /\ conn = [s \in Sids |-> "new"]
    /\ user_info = << >>
    /\ workspace_users = << >>
    /\ rooms = [w \in Workspaces |-> {}]
    /\ last = [op |-> "init", sid |-> None, ws |-> None, old |-> None, pre |-> {},
               emit |-> NoEmit, ok |-> TRUE, others |-> {}]

(***************************************************************************)
(* connect(sid, environ)                                                   *)
(***************************************************************************)
connect(sid) ==
    After([conn EXCEPT ![sid] = "open"],
          [s \in DOMAIN user_info \cup {sid} |->
              IF s = sid THEN [workspace_id |-> None, user_name |-> NoName]
              ELSE user_info[s]],
          workspace_users, rooms,
          Done("connect", sid, None, None, NoEmit, TRUE, {}))

(***************************************************************************)
(* disconnect(sid).  After the handler the Socket.IO server removes the    *)
(* closed sid from every room of its own table.                            *)
(***************************************************************************)
disconnect(sid) ==
    LET workspace_id == InfoWorkspace(user_info, sid)
        found == workspace_id # None /\ workspace_id \in Keys(workspace_users)
    IN After([conn EXCEPT ![sid] = "closed"],
             [s \in DOMAIN user_info \ {sid} |-> user_info[s]],
             IF found THEN Discard(workspace_users, workspace_id, sid) ELSE workspace_users,
             [w \in DOMAIN rooms |-> rooms[w] \ {sid}],
             Done("disconnect", sid, workspace_id, None,
                  IF found
                  THEN [event |-> "user_left", room |-> workspace_id,
                        to |-> Recipients(rooms, workspace_id, sid)]
                  ELSE NoEmit,
                  TRUE, {}))

(***************************************************************************)
(* join_workspace(sid, data)                                               *)
(***************************************************************************)
\* other_users: the members of the joined room except the joiner.
OtherUsers(wu, info, workspace_id, sid) ==
    {[user_id |-> uid, user_name |-> InfoName(info, uid)] :
        uid \in Users(wu, workspace_id) \ {sid}}

join_workspace(sid, workspace_id, user_name) ==
    IF workspace_id = None
    THEN After(conn, user_info, workspace_users, rooms,
               Done("join_workspace", sid, None, None, NoEmit, FALSE, {}))
    ELSE LET old_workspace == InfoWorkspace(user_info, sid)
             leaving == old_workspace # None /\ old_workspace \in Keys(workspace_users)
             wu1 == IF leaving THEN Discard(workspace_users, old_workspace, sid)
                    ELSE workspace_users
             rooms1 == IF leaving THEN [rooms EXCEPT ![old_workspace] = @ \ {sid}]
                       ELSE rooms
             rooms2 == [rooms1 EXCEPT ![workspace_id] = @ \cup {sid}]
             wu2 == AddUser(wu1, workspace_id, sid)
         IN IF sid \in DOMAIN user_info
            THEN LET info2 == [user_info EXCEPT ![sid] =
                                  [workspace_id |-> workspace_id, user_name |-> user_name]]
                 IN After(conn, info2, wu2, rooms2,
                          Done("join_workspace", sid, workspace_id, old_workspace,
                               [event |-> "user_joined", room |-> workspace_id,
                                to |-> Recipients(rooms2, workspace_id, sid)],
                               TRUE, OtherUsers(wu2, info2, workspace_id, sid)))
            ELSE \* self.user_info[sid] raises KeyError after the room was entered
                 After(conn, user_info, wu2, rooms2,
                       Done("join_workspace", sid, workspace_id, old_workspace,
                            NoEmit, FALSE, {}))

(***************************************************************************)
(* leave_workspace(sid, data)                                              *)
(***************************************************************************)
leave_workspace(sid, workspace_id) ==
    LET found == workspace_id # None /\ workspace_id \in Keys(workspace_users)
        wu1 == IF found THEN Discard(workspace_users, workspace_id, sid) ELSE workspace_users
        rooms1 == IF found THEN [rooms EXCEPT ![workspace_id] = @ \ {sid}] ELSE rooms
        emit == IF found
                THEN [event |-> "user_left", room |-> workspace_id,
                      to |-> Recipients(rooms1, workspace_id, sid)]
                ELSE NoEmit
    IN IF sid \in DOMAIN user_info
       THEN After(conn, [user_info EXCEPT ![sid].workspace_id = None], wu1, rooms1,
                  Done("leave_workspace", sid, workspace_id, None, emit, TRUE, {}))
       ELSE \* self.user_info[sid] raises KeyError
            After(conn, user_info, wu1, rooms1,
                  Done("leave_workspace", sid, workspace_id, None, emit, FALSE, {}))

(***************************************************************************)
(* The point-event relays item_created, item_updated, item_deleted,        *)
(* item_moved and cursor_move share one shape.                             *)
(***************************************************************************)
Relay(sid, event) ==
    LET workspace_id == InfoWorkspace(user_info, sid)
    IN After(conn, user_info, workspace_users, rooms,
             Done(event, sid, workspace_id, None,
                  IF workspace_id # None
                  THEN [event |-> event, room |-> workspace_id,
                        to |-> Recipients(rooms, workspace_id, sid)]
                  ELSE NoEmit,
                  TRUE, {}))

item_created(sid) == Relay(sid, "item_created")

item_updated(sid) == Relay(sid, "item_updated")

item_deleted(sid) == Relay(sid, "item_deleted")

item_moved(sid) == Relay(sid, "item_moved")

cursor_move(sid) == Relay(sid, "cursor_move")

(***************************************************************************)
(* The session model: the server runs one handler at a time, to its end.   *)
(***************************************************************************)
Handle(r) ==
    /\ conn' = r.conn
    /\ user_info' = r.user_info
    /\ workspace_users' = r.workspace_users
    /\ rooms' = r.rooms
    /\ last' = r.last
    /\ UNCHANGED loop_vars
    /\ UNCHANGED physics_vars
    /\ UNCHANGED cluster_vars
    /\ UNCHANGED route_vars
    /\ UNCHANGED detail_vars

Connect(sid) == conn[sid] = "new" /\ Handle(connect(sid))

Disconnect(sid) == conn[sid] = "open" /\ Handle(disconnect(sid))

JoinWorkspace(sid, workspace_id, user_name) ==
    conn[sid] = "open" /\ Handle(join_workspace(sid, workspace_id, user_name))

LeaveWorkspace(sid, workspace_id) ==
    conn[sid] = "open" /\ Handle(leave_workspace(sid, workspace_id))

ItemCreated(sid) == conn[sid] = "open" /\ Handle(item_created(sid))

ItemUpdated(sid) == conn[sid] = "open" /\ Handle(item_updated(sid))

ItemDeleted(sid) == conn[sid] = "open" /\ Handle(item_deleted(sid))

ItemMoved(sid) == conn[sid] = "open" /\ Handle(item_moved(sid))

CursorMove(sid) == conn[sid] = "open" /\ Handle(cursor_move(sid))

SessionNext ==
    \E sid \in Sids :
        \/ Connect(sid)
        \/ Disconnect(sid)
        \/ \E w \in Workspaces \cup {None}, n \in UserNames : JoinWorkspace(sid, w, n)
        \/ \E w \in Workspaces \cup {None} : LeaveWorkspace(sid, w)
        \/ ItemCreated(sid)
        \/ ItemUpdated(sid)
        \/ ItemDeleted(sid)
        \/ ItemMoved(sid)
        \/ CursorMove(sid)

(***************************************************************************)
(* The physics loop (start_physics_loop) and its task.  The task yields at *)
(* its awaits only: each sio.emit and the two asyncio.sleep calls.         *)
(***************************************************************************)
NumLoopSids == 1
NumLoopWorkspaces == 3
\* The number of membership events that run beside the loop task.
MaxLoopEvents == 4

LoopSids == 1..NumLoopSids
LoopWorkspaces == 1..NumLoopWorkspaces

NoIter == [pos |-> 0, used |-> 0]

LoopIdle ==
    /\ is_running = FALSE
    /\ loop_pc = "idle"
    /\ key_iter = NoIter
    /\ tick = [n |-> 0, start |-> {}, sent |-> << >>, fault |-> "none"]
    /\ stopped = FALSE
    /\ events = 0

\* The exception leaves start_physics_loop and ends the task.
OnTickError_Propagates == "done"

\* Where the task goes when a pass of the loop raises: the except clause
\* prints the error and sleeps.
OnTickError == "except_sleep"

\* next() of a dict key iterator: a dict whose size differs from the size at
\* the creation of the iterator raises RuntimeError.
DictIterNext(d, it) ==
    IF Len(d) # it.used THEN "changed"
    ELSE IF it.pos >= Len(d) THEN "exhausted"
    ELSE "key"

\* One pass of the while body up to its first await: physics_engine.step(),
\* which returns or raises, then the first key of workspace_users.
StartTick(raised) ==
    /\ tick' = [n |-> 1 - tick.n, start |-> Keys(workspace_users), sent |-> << >>,
                fault |-> IF raised THEN "step" ELSE "none"]
    /\ IF raised
       THEN loop_pc' = OnTickError /\ key_iter' = NoIter
       ELSE IF Len(workspace_users) = 0
            THEN loop_pc' = "sleep" /\ key_iter' = NoIter
            ELSE loop_pc' = "emit" /\ key_iter' = [pos |-> 1, used |-> Len(workspace_users)]

\* main.py lifespan: asyncio.create_task(socket_manager.start_physics_loop(...))
Startup ==
    /\ loop_pc = "idle"
    /\ loop_pc' = "created"
    /\ UNCHANGED <<is_running, key_iter, tick, stopped, events>>
    /\ UNCHANGED session_vars
    /\ UNCHANGED physics_vars
    /\ UNCHANGED cluster_vars
    /\ UNCHANGED route_vars
    /\ UNCHANGED detail_vars

\* The task's first run: self.is_running = True, then the while loop.
LoopBegin ==
    /\ loop_pc = "created"
    /\ is_running' = TRUE
    /\ \E raised \in BOOLEAN : StartTick(raised)
    /\ UNCHANGED <<stopped, events>>
    /\ UNCHANGED session_vars
    /\ UNCHANGED physics_vars
    /\ UNCHANGED cluster_vars
    /\ UNCHANGED route_vars
    /\ UNCHANGED detail_vars

\* An awaited sio.emit('physics_update', room=workspace_id) returns or raises;
\* then the for loop asks the iterator for the next key.
EmitDone ==
    /\ loop_pc = "emit"
    /\ \E failed \in BOOLEAN :
        IF failed
        THEN /\ tick' = [tick EXCEPT !.fault = "emit"]
             /\ loop_pc' = OnTickError
             /\ key_iter' = NoIter
        ELSE LET sent == Append(tick.sent, workspace_users[key_iter.pos].id)
                 nxt == DictIterNext(workspace_users, key_iter)
             IN CASE nxt = "changed" ->
                        /\ tick' = [tick EXCEPT !.sent = sent, !.fault = "dict"]
                        /\ loop_pc' = OnTickError
                        /\ key_iter' = NoIter
                  [] nxt = "exhausted" ->
                        /\ tick' = [tick EXCEPT !.sent = sent]
                        /\ loop_pc' = "sleep"
                        /\ key_iter' = NoIter
                  [] nxt = "key" ->
                        /\ tick' = [tick EXCEPT !.sent = sent]
                        /\ loop_pc' = "emit"
                        /\ key_iter' = [key_iter EXCEPT !.pos = @ + 1]
    /\ UNCHANGED <<is_running, stopped, events>>
    /\ UNCHANGED session_vars
    /\ UNCHANGED physics_vars
    /\ UNCHANGED cluster_vars
    /\ UNCHANGED route_vars
    /\ UNCHANGED detail_vars

\* asyncio.sleep(broadcast_interval) returns; `while self.is_running`.
SleepDone ==
    /\ loop_pc \in {"sleep", "except_sleep"}
    /\ IF is_running
       THEN \E raised \in BOOLEAN : StartTick(raised)
       ELSE loop_pc' = "done" /\ UNCHANGED <<key_iter, tick>>
    /\ UNCHANGED <<is_running, stopped, events>>
    /\ UNCHANGED session_vars
    /\ UNCHANGED physics_vars
    /\ UNCHANGED cluster_vars
    /\ UNCHANGED route_vars
    /\ UNCHANGED detail_vars

\* main.py lifespan shutdown: socket_manager.stop_physics_loop()
StopPhysicsLoop ==
    /\ loop_pc # "idle"
    /\ ~stopped
    /\ is_running' = FALSE
    /\ stopped' = TRUE
    /\ UNCHANGED <<loop_pc, key_iter, tick, events>>
    /\ UNCHANGED session_vars
    /\ UNCHANGED physics_vars
    /\ UNCHANGED cluster_vars
    /\ UNCHANGED route_vars
    /\ UNCHANGED detail_vars

\* A handler that runs while the loop task is suspended at an await.
Interleave(r) ==
    /\ events < MaxLoopEvents
    /\ events' = events + 1
    /\ conn' = r.conn
    /\ user_info' = r.user_info
    /\ workspace_users' = r.workspace_users
    /\ rooms' = r.rooms
    /\ UNCHANGED last
    /\ UNCHANGED <<is_running, loop_pc, key_iter, tick, stopped>>
    /\ UNCHANGED physics_vars
    /\ UNCHANGED cluster_vars
    /\ UNCHANGED route_vars
    /\ UNCHANGED detail_vars

LoopConnect(sid) == conn[sid] = "new" /\ Interleave(connect(sid))

LoopDisconnect(sid) == conn[sid] = "open" /\ Interleave(disconnect(sid))

LoopJoinWorkspace(sid, workspace_id, user_name) ==
    conn[sid] = "open" /\ Interleave(join_workspace(sid, workspace_id, user_name))

LoopLeaveWorkspace(sid, workspace_id) ==
    conn[sid] = "open" /\ Interleave(leave_workspace(sid, workspace_id))

(***************************************************************************)
(* The physics engine (PhysicsEngine).  Its floats are kept as integers:   *)
(* positions and distances in tenths of a canvas unit, forces in tenths,   *)
(* velocities in hundredths, similarities in thousandths.  Every quotient  *)
(* is cut toward zero and a square root that is used as a value is rounded *)
(* up, so a magnitude in the model never exceeds the real-valued one; a    *)
(* comparison of a square root with a threshold is made on the squares and *)
(* is exact.                                                               *)
(***************************************************************************)
NumBodies == 2
MaxTicks == 2
MaxCalls == 3

BodyIds == 1..NumBodies

gravity_strength == 50000          \* 5000.0
repulsion_strength == 20000        \* 2000.0
similarity_threshold == 700        \* 0.7
max_attraction_distance == 8000    \* 800.0
min_repulsion_distance == 1000     \* 100.0
damping == 80                      \* 0.80, in hundredths
max_velocity == 1500               \* 15.0
time_step == 16                    \* 0.016, in thousandths
min_distance == 10                 \* the 1.0 that a smaller distance is raised to
stop_velocity == 10                \* the 0.1 below which a body is stopped
default_radius == 400              \* 40.0

\* A missing embedding (None, or an empty list: both are false in Python).
NoEmbedding == << >>

\* The quotient a / b of floats, cut toward zero (b > 0).
TDiv(a, b) == IF a >= 0 THEN a \div b ELSE -((-a) \div b)

\* The least k in lo..hi with k * k >= n, by bisection.
RECURSIVE SqrtSearch(_, _, _)
SqrtSearch(n, lo, hi) ==
    IF lo >= hi THEN lo
    ELSE CHOOSE r \in {IF mid * mid >= n THEN SqrtSearch(n, lo, mid)
                       ELSE SqrtSearch(n, mid + 1, hi) : mid \in {(lo + hi) \div 2}} : TRUE

\* math.sqrt(n), rounded up.
Sqrt(n) == CHOOSE r \in {SqrtSearch(v, 0, 46340) : v \in {n}} : TRUE

RECURSIVE Dot(_, _, _)
Dot(a, b, i) == IF i > Len(a) THEN 0 ELSE a[i] * b[i] + Dot(a, b, i + 1)

\* compute_similarity: the cosine of the two vectors, each divided by its
\* norm + 1e-8, moved from [-1, 1] to [0, 1].  A zero vector stays zero.
compute_similarity(embedding1, embedding2) ==
    LET n1 == Dot(embedding1, embedding1, 1)
        n2 == Dot(embedding2, embedding2, 1)
        dot == Dot(embedding1, embedding2, 1)
        cos == IF n1 = 0 \/ n2 = 0 THEN 0
               ELSE TDiv(dot * 1000000, Sqrt(n1 * n2 * 1000000))
    IN (cos + 1000) \div 2

\* The distance of two bodies as the force terms use it: at least 1.0.
ForceDistance(body, other) ==
    LET d2 == (other.x - body.x) * (other.x - body.x) + (other.y - body.y) * (other.y - body.y)
    IN IF d2 < min_distance * min_distance THEN min_distance ELSE Sqrt(d2)

\* "REPULSION: Prevent overlap"
repulsion_force(body, other) ==
    LET dx == other.x - body.x
        dy == other.y - body.y
        distance == ForceDistance(body, other)
    IN IF dx * dx + dy * dy < min_repulsion_distance * min_repulsion_distance
       THEN TDiv(repulsion_strength * (min_repulsion_distance - distance),
                 min_repulsion_distance)
       ELSE 0

\* Every pair attracts as if its embeddings were equal.
attraction_force_AnyPair(body, other) ==
    LET dx == other.x - body.x
        dy == other.y - body.y
        distance == ForceDistance(body, other)
    IN IF dx * dx + dy * dy < max_attraction_distance * max_attraction_distance
       THEN TDiv(gravity_strength * (max_attraction_distance - distance),
                 max_attraction_distance)
       ELSE 0

\* "ATTRACTION: Based on semantic similarity"
attraction_force(body, other) ==
    LET dx == other.x - body.x
        dy == other.y - body.y
        distance == ForceDistance(body, other)
        similarity == compute_similarity(body.embedding, other.embedding)
    IN IF /\ body.embedding # NoEmbedding /\ other.embedding # NoEmbedding
          /\ dx * dx + dy * dy < max_attraction_distance * max_attraction_distance
          /\ similarity > similarity_threshold
       THEN TDiv(TDiv(gravity_strength * (similarity - similarity_threshold),
                      1000 - similarity_threshold)
                 * (max_attraction_distance - distance),
                 max_attraction_distance)
       ELSE 0

\* The force on body that one other body adds, as <<fx, fy>>.
PairForce(body, other) ==
    LET dx == other.x - body.x
        dy == other.y - body.y
        distance == ForceDistance(body, other)
        repulsion == repulsion_force(body, other)
        attraction == attraction_force(body, other)
    IN << TDiv(dx * attraction, distance) - TDiv(dx * repulsion, distance),
          TDiv(dy * attraction, distance) - TDiv(dy * repulsion, distance) >>

RECURSIVE SumForces(_, _, _)
SumForces(bs, body, j) ==
    IF j > Len(bs) THEN <<0, 0>>
    ELSE LET rest == SumForces(bs, body, j + 1)
         IN IF bs[j].id = body.id THEN rest
            ELSE LET f == PairForce(body, bs[j])
                 IN <<f[1] + rest[1], f[2] + rest[2]>>

\* compute_forces(body): the sum over all other bodies of the registry.
compute_forces(bs, body) == SumForces(bs, body, 1)

\* The velocity is left as it is, whatever its size.
CapVelocity_NoCap(vx, vy) == <<vx, vy>>

\* "Cap velocity and Stop if slow"
CapVelocity(vx, vy) ==
    LET v2 == vx * vx + vy * vy
    IN IF v2 < stop_velocity * stop_velocity THEN <<0, 0>>
       ELSE IF v2 > max_velocity * max_velocity
            THEN LET velocity == Sqrt(v2)
                 IN <<TDiv(vx * max_velocity, velocity), TDiv(vy * max_velocity, velocity)>>
            ELSE <<vx, vy>>

\* The body of the for loop of step() for one body with a nonzero mass.
StepBody(bs, body) ==
    LET f == compute_forces(bs, body)
        ax == TDiv(f[1], body.mass)
        ay == TDiv(f[2], body.mass)
        vx1 == TDiv((body.vx + TDiv(ax * time_step, 100)) * damping, 100)
        vy1 == TDiv((body.vy + TDiv(ay * time_step, 100)) * damping, 100)
        v == CapVelocity(vx1, vy1)
    IN [body EXCEPT !.vx = v[1], !.vy = v[2],
                    !.x = @ + TDiv(v[1] * time_step * 60, 10000),
                    !.y = @ + TDiv(v[2] * time_step * 60, 10000)]

\* step(): the bodies are moved one after the other, in place, so a body sees
\* the new positions of the bodies before it.  fx / body.mass raises
\* ZeroDivisionError for a zero mass and leaves the rest of the bodies alone.
RECURSIVE StepFrom(_, _)
StepFrom(bs, i) ==
    IF i > Len(bs) THEN [bodies |-> bs, raised |-> FALSE]
    ELSE IF bs[i].mass = 0 THEN [bodies |-> bs, raised |-> TRUE]
    ELSE StepFrom([bs EXCEPT ![i] = StepBody(bs, bs[i])], i + 1)

step(bs) == StepFrom(bs, 1)

\* The updates dict that step() returns.
Updates(bs) == [i \in DOMAIN bs |-> [id |-> bs[i].id, x |-> bs[i].x, y |-> bs[i].y,
                                     vx |-> bs[i].vx, vy |-> bs[i].vy]]

BodyIdsOf(bs) == {bs[i].id : i \in DOMAIN bs}

BodyOf(bs, id) == bs[CHOOSE i \in DOMAIN bs : bs[i].id = id]

\* The body is added even when its id is already there.
add_body_Append(bs, body) == Append(bs, body)

\* self.bodies[body.id] = body
add_body(bs, body) ==
    IF body.id \in BodyIdsOf(bs)
    THEN [i \in DOMAIN bs |-> IF bs[i].id = body.id THEN body ELSE bs[i]]
    ELSE Append(bs, body)

\* if body_id in self.bodies: del self.bodies[body_id]
remove_body(bs, body_id) == SelectSeq(bs, LAMBDA b : b.id # body_id)

\* A body that is not there is created at the position.
update_body_position_Upsert(bs, body_id, x, y) ==
    IF body_id \in BodyIdsOf(bs)
    THEN [i \in DOMAIN bs |->
            IF bs[i].id = body_id THEN [bs[i] EXCEPT !.x = x, !.y = y, !.vx = 0, !.vy = 0]
            ELSE bs[i]]
    ELSE Append(bs, [id |-> body_id, x |-> x, y |-> y, vx |-> 0, vy |-> 0, mass |-> 1,
                     radius |-> default_radius, embedding |-> NoEmbedding,
                     cluster_id |-> None])

\* The position is set and the velocity is kept.
update_body_position_KeepVelocity(bs, body_id, x, y) ==
    [i \in DOMAIN bs |-> IF bs[i].id = body_id THEN [bs[i] EXCEPT !.x = x, !.y = y] ELSE bs[i]]

\* update_body_position(body_id, x, y)
update_body_position(bs, body_id, x, y) ==
    [i \in DOMAIN bs |->
        IF bs[i].id = body_id THEN [bs[i] EXCEPT !.x = x, !.y = y, !.vx = 0, !.vy = 0]
        ELSE bs[i]]

\* The filter of get_nearest_neighbors without the distance test.
Qualifies_AnyDistance(d2, similarity, max_distance, min_similarity) ==
    similarity >= min_similarity

\* `if distance > max_distance: continue` and `if similarity >= min_similarity`
Qualifies(d2, similarity, max_distance, min_similarity) ==
    /\ ~(d2 > max_distance * max_distance)
    /\ similarity >= min_similarity

\* The similarity get_nearest_neighbors gives a pair: 0.0 unless both bodies
\* have an embedding.
NeighborSimilarity(body, other) ==
    IF body.embedding # NoEmbedding /\ other.embedding # NoEmbedding
    THEN compute_similarity(body.embedding, other.embedding)
    ELSE 0

\* The for loop of get_nearest_neighbors from the j-th body on: the entries
\* in the order of the registry.
RECURSIVE CollectNeighbors(_, _, _, _, _)
CollectNeighbors(bs, body, max_distance, min_similarity, j) ==
    IF j > Len(bs) THEN << >>
    ELSE LET other == bs[j]
             rest == CollectNeighbors(bs, body, max_distance, min_similarity, j + 1)
             d2 == (other.x - body.x) * (other.x - body.x)
                   + (other.y - body.y) * (other.y - body.y)
             similarity == NeighborSimilarity(body, other)
         IN IF other.id = body.id THEN rest
            ELSE IF Qualifies(d2, similarity, max_distance, min_similarity)
                 THEN << [id |-> other.id, distance |-> Sqrt(d2), similarity |-> similarity,
                          x |-> other.x, y |-> other.y] >> \o rest
                 ELSE rest

\* The list is returned in the order of the for loop.
SortBySimilarity_Unsorted(neighbors) == neighbors

\* neighbors.sort(key=lambda n: n["similarity"], reverse=True): a stable sort,
\* entries of equal similarity keep their order.
RECURSIVE SortBySimilarity(_)
SortBySimilarity(neighbors) ==
    IF Len(neighbors) <= 1 THEN neighbors
    ELSE LET n == neighbors[Len(neighbors)]
             sorted == SortBySimilarity(SubSeq(neighbors, 1, Len(neighbors) - 1))
             before == SelectSeq(sorted, LAMBDA e : e.similarity >= n.similarity)
             after == SelectSeq(sorted, LAMBDA e : e.similarity < n.similarity)
         IN before \o <<n>> \o after

get_nearest_neighbors(bs, body_id, max_distance, min_similarity) ==
    IF body_id \notin BodyIdsOf(bs) THEN << >>
    ELSE SortBySimilarity(
             CollectNeighbors(bs, BodyOf(bs, body_id), max_distance, min_similarity, 1))

(***************************************************************************)
(* The inputs of the engine model.                                         *)
(***************************************************************************)
Positions == {<<0, 0>>, <<30, 40>>, <<2000, 0>>}
Embeddings == {NoEmbedding, <<1, 0>>, <<1, 1>>}

PhysicsBody(id, pos, vel, mass, embedding) ==
    [id |-> id, x |-> pos[1], y |-> pos[2], vx |-> vel[1], vy |-> vel[2], mass |-> mass,
     radius |-> default_radius, embedding |-> embedding, cluster_id |-> None]

\* Bodies as the application makes them (at rest, mass 1.0), a body with a
\* zero mass, and a heavier body that comes with a velocity above the cap.
BodySamples ==
    {PhysicsBody(id, p, <<0, 0>>, 1, e) : id \in BodyIds, p \in Positions, e \in Embeddings}
    \cup {PhysicsBody(id, <<0, 0>>, <<0, 0>>, 0, NoEmbedding) : id \in BodyIds}
    \cup {PhysicsBody(id, <<30, 40>>, <<-1200, 1600>>, 2, NoEmbedding) : id \in BodyIds}

\* No registry operation has been recorded.
NoCall == [op |-> "none", id |-> None, body |-> [id |-> None], x |-> 0, y |-> 0,
           max_distance |-> 0, min_similarity |-> 0, pre |-> << >>, out |-> << >>]

PhysicsIdle ==
    /\ bodies = << >>
    /\ ticks = 0
    /\ calls = 0
    /\ step_out = [op |-> "none", raised |-> FALSE, updates |-> << >>]
    /\ call = NoCall

\* One more call of a registry operation by the application.
Called ==
    /\ calls < MaxCalls
    /\ calls' = calls + 1
    /\ UNCHANGED <<ticks, step_out, call>>
    /\ UNCHANGED session_vars
    /\ UNCHANGED loop_vars
    /\ UNCHANGED cluster_vars
    /\ UNCHANGED route_vars
    /\ UNCHANGED detail_vars

AddBody(body) ==
    /\ bodies' = add_body(bodies, body)
    /\ Called

RemoveBody(body_id) ==
    /\ bodies' = remove_body(bodies, body_id)
    /\ Called

UpdateBodyPosition(body_id, pos) ==
    /\ bodies' = update_body_position(bodies, body_id, pos[1], pos[2])
    /\ Called

Step ==
    /\ ticks < MaxTicks
    /\ LET r == step(bodies)
       IN /\ bodies' = r.bodies
          /\ step_out' = [op |-> "step", raised |-> r.raised,
                          updates |-> IF r.raised THEN << >> ELSE Updates(r.bodies)]
    /\ ticks' = ticks + 1
    /\ UNCHANGED <<calls, call>>
    /\ UNCHANGED session_vars
    /\ UNCHANGED loop_vars
    /\ UNCHANGED cluster_vars
    /\ UNCHANGED route_vars
    /\ UNCHANGED detail_vars

PhysicsNext ==
    \/ \E body \in BodySamples : AddBody(body)
    \/ \E id \in BodyIds : RemoveBody(id)
    \/ \E id \in BodyIds, pos \in Positions : UpdateBodyPosition(id, pos)
    \/ Step

(***************************************************************************)
(* The registry operations and the neighbour query, each recorded in call. *)
(***************************************************************************)
NumRegistryBodies == 3

RegistryIds == 1..NumRegistryBodies

\* The number of registry operations and queries in a run.
MaxRegistryCalls == 4

\* Per id: a body at rest, a moving heavier body with an embedding at a right
\* angle to the first, and a far body without an embedding.
RegistrySamples ==
    UNION {{PhysicsBody(id, <<0, 0>>, <<0, 0>>, 1, <<1, 0>>),
            PhysicsBody(id, <<30, 40>>, <<-1200, 1600>>, 2, <<0, 1>>),
            PhysicsBody(id, <<2000, 0>>, <<0, 0>>, 1, NoEmbedding)} : id \in RegistryIds}

\* The positions a drag moves a body to.
RegistryPositions == {<<30, 40>>, <<2000, 0>>}

\* max_distance: the distance of <<0, 0>> and <<30, 40>>, and 200.0.
MaxDistances == {50, 2000}

\* min_similarity: 0.0, 0.5 and the default 0.6.
MinSimilarities == {0, 500, 600}

Recorded(c) ==
    /\ calls < MaxRegistryCalls
    /\ calls' = calls + 1
    /\ call' = c
    /\ UNCHANGED <<ticks, step_out>>
    /\ UNCHANGED session_vars
    /\ UNCHANGED loop_vars
    /\ UNCHANGED cluster_vars
    /\ UNCHANGED route_vars
    /\ UNCHANGED detail_vars

RegistryAddBody(body) ==
    /\ bodies' = add_body(bodies, body)
    /\ Recorded([NoCall EXCEPT !.op = "add_body", !.id = body.id, !.body = body,
                                !.pre = bodies])

RegistryRemoveBody(body_id) ==
    /\ bodies' = remove_body(bodies, body_id)
    /\ Recorded([NoCall EXCEPT !.op = "remove_body", !.id = body_id, !.pre = bodies])

RegistryUpdateBodyPosition(body_id, pos) ==
    /\ bodies' = update_body_position(bodies, body_id, pos[1], pos[2])
    /\ Recorded([NoCall EXCEPT !.op = "update_body_position", !.id = body_id,
                                !.x = pos[1], !.y = pos[2], !.pre = bodies])

GetNearestNeighbors(body_id, max_distance, min_similarity) ==
    /\ UNCHANGED bodies
    /\ Recorded([NoCall EXCEPT !.op = "get_nearest_neighbors", !.id = body_id,
                                !.max_distance = max_distance,
                                !.min_similarity = min_similarity, !.pre = bodies,
                                !.out = get_nearest_neighbors(bodies, body_id, max_distance,
                                                              min_similarity)])

RegistryNext ==
    \/ \E body \in RegistrySamples : RegistryAddBody(body)
    \/ \E id \in RegistryIds : RegistryRemoveBody(id)
    \/ \E id \in RegistryIds, pos \in RegistryPositions : RegistryUpdateBodyPosition(id, pos)
    \/ \E id \in RegistryIds, max_distance \in MaxDistances, min_similarity \in MinSimilarities :
          GetNearestNeighbors(id, max_distance, min_similarity)
(***************************************************************************)
(* The clustering service (ClusteringService).  Canvas positions are       *)
(* integers; centers, distances and radii are kept in tenths, quotients    *)
(* cut toward zero and square roots rounded up.  The labels come from      *)
(* scikit-learn: every assignment the library can return is a choice.      *)
(***************************************************************************)
NumItems == 3

cluster_padding == 1000            \* the 100 added to the radius
num_colors == 10                   \* len(CLUSTER_COLORS)
noise == -1                        \* the label DBSCAN gives a noise point

Algorithms == {"dbscan", "kmeans", "spectral"}

\* n_clusters of the service: None, or a number.
NClusters == {None, 1, 2, 3}

ItemPositions == {<<0, 0>>, <<100, 0>>, <<50, 100>>}

\* The item lists: item i has id i and any of the positions.
ItemLists ==
    UNION {[1..n -> ItemPositions] : n \in 0..NumItems}

Item(i, pos) == [id |-> i, position_x |-> pos[1], position_y |-> pos[2]]

Items(positions) == [i \in DOMAIN positions |-> Item(i, positions[i])]

Min(a, b) == IF a <= b THEN a ELSE b

Max(a, b) == IF a >= b THEN a ELSE b

\* n_clusters = self.n_clusters or min(max(2, n_items // 5), 10)
KMeansK(n_clusters, n_items) ==
    IF n_clusters # None THEN n_clusters ELSE Min(Max(2, n_items \div 5), 10)

\* The labels DBSCAN can give a handful of points with min_samples = 2:
\* noise, or one of at most two clusters.
DbscanLabels == {noise, 0, 1}

\* fit_predict: one label per embedding.
LabelAssignments(algorithm, n_clusters, n_items, n_embeddings) ==
    IF algorithm = "dbscan"
    THEN [1..n_embeddings -> DbscanLabels]
    ELSE [1..n_embeddings -> 0..(KMeansK(n_clusters, n_items) - 1)]

RECURSIVE SortedSeq(_)
SortedSeq(S) ==
    IF S = {} THEN << >>
    ELSE LET least == CHOOSE x \in S : \A y \in S : x <= y
         IN <<least>> \o SortedSeq(S \ {least})

\* set(labels) in the order Python iterates it: the small non-negative
\* labels in increasing order, then -1 (whose hash is -2).
UniqueLabels(labels) ==
    LET S == {labels[i] : i \in DOMAIN labels}
    IN SortedSeq(S \ {noise}) \o (IF noise \in S THEN <<noise>> ELSE << >>)

\* [items[i] for i in range(len(items)) if labels[i] == label]
RECURSIVE ClusterItems(_, _, _, _)
ClusterItems(items, labels, label, i) ==
    IF i > Len(items) THEN << >>
    ELSE (IF labels[i] = label THEN <<items[i]>> ELSE << >>)
         \o ClusterItems(items, labels, label, i + 1)

RECURSIVE SumOf(_, _, _)
SumOf(cluster_items, field, i) ==
    IF i > Len(cluster_items) THEN 0
    ELSE cluster_items[i][field] + SumOf(cluster_items, field, i + 1)

\* sum(p[...] for p in positions) / len(positions), in tenths
Center(cluster_items, field) ==
    TDiv(10 * SumOf(cluster_items, field, 1), Len(cluster_items))

RECURSIVE MaxDist(_, _, _, _)
MaxDist(cluster_items, center_x, center_y, i) ==
    IF i > Len(cluster_items) THEN 0
    ELSE LET dx == 10 * cluster_items[i].position_x - center_x
             dy == 10 * cluster_items[i].position_y - center_y
         IN Max(Sqrt(dx * dx + dy * dy), MaxDist(cluster_items, center_x, center_y, i + 1))

\* The radius is the largest member distance, without padding.
ClusterRadius_NoPadding(max_dist) == max_dist

\* radius = max_dist + 100
ClusterRadius(max_dist) == max_dist + cluster_padding

\* The Cluster built for one label of two or more items.
BuildCluster(label_idx, label, cluster_items) ==
    LET center_x == Center(cluster_items, "position_x")
        center_y == Center(cluster_items, "position_y")
    IN [id |-> label,
        color |-> label_idx % num_colors,
        center_x |-> center_x,
        center_y |-> center_y,
        radius |-> ClusterRadius(MaxDist(cluster_items, center_x, center_y, 1)),
        item_ids |-> [k \in DOMAIN cluster_items |-> cluster_items[k].id]]

\* Only the noise label is skipped.
Skipped_NoiseOnly(label, cluster_items) == label = noise

\* if label == -1: continue ... if len(cluster_items) < 2: continue
Skipped(label, cluster_items) == label = noise \/ Len(cluster_items) < 2

\* The for loop of _build_clusters from the k-th unique label on (label_idx
\* is k - 1): noise and groups of fewer than 2 items are skipped.
RECURSIVE BuildFrom(_, _, _, _)
BuildFrom(items, labels, unique, k) ==
    IF k > Len(unique) THEN << >>
    ELSE LET label == unique[k]
             cluster_items == ClusterItems(items, labels, label, 1)
             rest == BuildFrom(items, labels, unique, k + 1)
         IN IF Skipped(label, cluster_items) THEN rest
            ELSE <<BuildCluster(k - 1, label, cluster_items)>> \o rest

\* _build_clusters(items, labels): labels[i] raises IndexError for an item
\* without a label as soon as a label other than noise is looked at.
_build_clusters(items, labels) ==
    IF Len(items) > Len(labels) /\ \E i \in DOMAIN labels : labels[i] # noise
    THEN [out |-> << >>, raised |-> TRUE]
    ELSE [out |-> BuildFrom(items, labels, UniqueLabels(labels), 1), raised |-> FALSE]

\* Only the number of items is looked at.
TooFew_ItemsOnly(n_items, n_embeddings) == n_items < 2

\* if len(items) < 2 or len(embeddings) < 2: return []
TooFew(n_items, n_embeddings) == n_items < 2 \/ n_embeddings < 2

\* compute_clusters(items, embeddings), given the labels the library returns.
\* Every algorithm name but "dbscan" runs K-means, and KMeans raises
\* ValueError for fewer samples than clusters.
compute_clusters(algorithm, n_clusters, items, n_embeddings, labels) ==
    IF TooFew(Len(items), n_embeddings) THEN [out |-> << >>, raised |-> FALSE]
    ELSE IF algorithm # "dbscan" /\ n_embeddings < KMeansK(n_clusters, Len(items))
    THEN [out |-> << >>, raised |-> TRUE]
    ELSE _build_clusters(items, labels)

ClusterIdle ==
    built = [algorithm |-> "none", n_clusters |-> None, items |-> << >>, n_embeddings |-> 0,
             labels |-> << >>, out |-> << >>, raised |-> FALSE]

ComputeClusters(algorithm, n_clusters, items, n_embeddings) ==
    /\ \E labels \in (IF TooFew(Len(items), n_embeddings) THEN {<< >>}
                       ELSE LabelAssignments(algorithm, n_clusters, Len(items), n_embeddings)) :
          LET r == compute_clusters(algorithm, n_clusters, items, n_embeddings, labels)
          IN built' = [algorithm |-> algorithm, n_clusters |-> n_clusters, items |-> items,
                       n_embeddings |-> n_embeddings, labels |-> labels,
                       out |-> r.out, raised |-> r.raised]
    /\ UNCHANGED session_vars
    /\ UNCHANGED loop_vars
    /\ UNCHANGED physics_vars
    /\ UNCHANGED detail_vars
    /\ UNCHANGED route_vars

\* One call of compute_clusters; the service keeps nothing between calls, so
\* a run is one call.
ClusterNext ==
    /\ ClusterIdle
    /\ \E algorithm \in Algorithms, n_clusters \in NClusters, positions \in ItemLists,
          n_embeddings \in 0..NumItems :
          ComputeClusters(algorithm, n_clusters, Items(positions), n_embeddings)

(***************************************************************************)
(* _build_clusters called on its own, with one label per item.             *)
(***************************************************************************)
NumBuildItems == 5

\* The labels of a clustering: noise, or one of three clusters.
BuildLabels == {noise, 0, 1, 2}

\* Item i at (100 i, 100 i).
BuildItems(n) == [i \in 1..n |-> Item(i, <<100 * i, 100 * i>>)]

BuildClusters(items, labels) ==
    /\ LET r == _build_clusters(items, labels)
       IN built' = [algorithm |-> "_build_clusters", n_clusters |-> None, items |-> items,
                    n_embeddings |-> Len(labels), labels |-> labels,
                    out |-> r.out, raised |-> r.raised]
    /\ UNCHANGED session_vars
    /\ UNCHANGED loop_vars
    /\ UNCHANGED physics_vars
    /\ UNCHANGED detail_vars
    /\ UNCHANGED route_vars

BuildNext ==
    /\ ClusterIdle
    /\ \E n \in 0..NumBuildItems : \E labels \in [1..n -> BuildLabels] :
          BuildClusters(BuildItems(n), labels)

(***************************************************************************)
(* POST /api/clusters/workspace/{workspace_id}/compute: the request is     *)
(* validated against ComputeClustersRequest, then compute_clusters runs.   *)
(***************************************************************************)
NumRouteItems == 3
MaxRequests == 2

\* n_clusters of a request: absent, 1 and 3.
RouteNClusters == {None, 1, 3}

\* Any algorithm name passes the validation.
ValidRequest_AnyAlgorithm(algorithm, n_clusters) ==
    n_clusters = None \/ n_clusters \in 2..20

\* algorithm: pattern ^(dbscan|kmeans)$; n_clusters: None, or ge=2, le=20
ValidRequest(algorithm, n_clusters) ==
    /\ algorithm \in {"dbscan", "kmeans"}
    /\ n_clusters = None \/ n_clusters \in 2..20

\* A workspace of n items with embeddings, no auto-generated cluster stored
\* and no item assigned to one.
EmptyStore(n) == [n |-> n, clusters |-> << >>, cluster_id |-> [i \in 1..n |-> None]]

NoResponse ==
    [status |-> 0, body |-> << >>, algorithm |-> "none", n_clusters |-> None, ran |-> "none",
     pre |-> EmptyStore(0), requests |-> 0]

RouteIdle == store = EmptyStore(0) /\ response = NoResponse

\* The rows after the old clusters are deleted, the assignments cleared and
\* the computed clusters saved; a stored cluster is named by its position.
Saved(n, computed) ==
    [n |-> n,
     clusters |-> [k \in DOMAIN computed |->
                      [color |-> computed[k].color, item_ids |-> computed[k].item_ids]],
     cluster_id |-> [i \in 1..n |->
                        LET holders == {k \in DOMAIN computed :
                                           \E m \in DOMAIN computed[k].item_ids :
                                               computed[k].item_ids[m] = i}
                        IN IF holders = {} THEN None
                           ELSE CHOOSE k \in holders : \A h \in holders : h <= k]]

\* The service runs DBSCAN for "dbscan" and K-means for every other name.
RunsAs(algorithm) == IF algorithm = "dbscan" THEN "dbscan" ELSE "kmeans"

\* One request.  422: the request does not validate; 400: fewer than 2
\* items with embeddings; 500: the service raised and the session is rolled
\* back; 200: the computed clusters are stored and returned.
ComputeRoute(algorithm, n_clusters) ==
    /\ response.requests < MaxRequests
    /\ LET items == BuildItems(store.n)
           req == [NoResponse EXCEPT !.algorithm = algorithm, !.n_clusters = n_clusters,
                                     !.pre = store, !.requests = response.requests + 1]
       IN IF ~ValidRequest(algorithm, n_clusters)
          THEN /\ response' = [req EXCEPT !.status = 422]
               /\ UNCHANGED <<store, built>>
          ELSE IF Len(items) < 2
          THEN /\ response' = [req EXCEPT !.status = 400]
               /\ UNCHANGED <<store, built>>
          ELSE \E labels \in LabelAssignments(algorithm, n_clusters, Len(items), Len(items)) :
                  LET r == compute_clusters(algorithm, n_clusters, items, Len(items), labels)
                  IN /\ built' = [algorithm |-> algorithm, n_clusters |-> n_clusters,
                                  items |-> items, n_embeddings |-> Len(items),
                                  labels |-> labels, out |-> r.out, raised |-> r.raised]
                     /\ IF r.raised
                        THEN /\ response' = [req EXCEPT !.status = 500,
                                                        !.ran = RunsAs(algorithm)]
                             /\ store' = store
                        ELSE /\ response' = [req EXCEPT !.status = 200, !.body = r.out,
                                                        !.ran = RunsAs(algorithm)]
                             /\ store' = Saved(store.n, r.out)
    /\ UNCHANGED session_vars
    /\ UNCHANGED loop_vars
    /\ UNCHANGED physics_vars
    /\ UNCHANGED detail_vars

(***************************************************************************)
(* The handlers followed across their awaits.  join_workspace suspends at  *)
(* leave_room, enter_room and emit, leave_workspace at leave_room and      *)
(* emit, disconnect at emit; while a handler is suspended the event loop   *)
(* runs the other handlers.  frames[sid] holds the locals of the suspended *)
(* join_workspace or leave_workspace handler of sid and the position of    *)
(* its disconnect handler.                                                 *)
(***************************************************************************)
NoFrame ==
    [op |-> "none", pc |-> "idle", workspace_id |-> None, user_name |-> NoName,
     old_workspace |-> None, emit |-> NoEmit, error |-> "none", overlap |-> "none",
     disconnect |-> "idle", user_left |-> NoEmit]

\* The connections of this model.
NumAwaitSids == 1

AwaitSids == 1..NumAwaitSids

\* No item_moved event has been handled.
NoMove == [sid |-> None, item_id |-> None, x |-> 0, y |-> 0, ticks |-> 0]

DetailIdle ==
    /\ frames = [s \in Sids \cup AwaitSids |-> NoFrame]
    /\ moved = NoMove
    /\ stepping = 0
    /\ forces = << >>

\* What a handler that has ended leaves of its frame: how it ended.
Ended(f, pc, error) ==
    [NoFrame EXCEPT !.op = f.op, !.pc = pc, !.error = error, !.overlap = f.overlap,
                    !.disconnect = f.disconnect]

\* The awaits a join_workspace or leave_workspace handler can be suspended at.
Suspended(f) == f.pc \in {"leave_room", "enter_room", "emit"}

\* The Socket.IO server forgets a connection once its disconnect handler has
\* returned.  enter_room for a connection it has forgotten enters the room in
\* some releases of the library and raises in others.
EnterRoomOutcomes(sid) ==
    IF frames[sid].disconnect = "returned" THEN {"entered", "raised"} ELSE {"entered"}

\* The handler of sid goes on to f; the other connections keep their frames.
Frame(sid, f) == frames' = [frames EXCEPT ![sid] = f]

Rest ==
    /\ UNCHANGED <<moved, stepping, forces>>
    /\ UNCHANGED loop_vars
    /\ UNCHANGED physics_vars
    /\ UNCHANGED cluster_vars
    /\ UNCHANGED route_vars

\* join_workspace from its entry to its first await
JoinStart(sid, workspace_id, user_name) ==
    /\ conn[sid] = "open"
    /\ ~Suspended(frames[sid])
    /\ LET f == [NoFrame EXCEPT !.op = "join_workspace", !.workspace_id = workspace_id,
                                !.user_name = user_name]
           old_workspace == InfoWorkspace(user_info, sid)
           leaving == old_workspace # None /\ old_workspace \in Keys(workspace_users)
       IN IF workspace_id = None
          THEN /\ Frame(sid, Ended(f, "returned", "none"))
               /\ last' = Done("join_workspace", sid, None, None, NoEmit, FALSE, {})
               /\ UNCHANGED <<conn, user_info, workspace_users, rooms>>
          ELSE IF leaving
          THEN /\ workspace_users' = Discard(workspace_users, old_workspace, sid)
               /\ rooms' = [rooms EXCEPT ![old_workspace] = @ \ {sid}]
               /\ Frame(sid, [f EXCEPT !.pc = "leave_room", !.old_workspace = old_workspace])
               /\ UNCHANGED <<conn, user_info, last>>
          ELSE /\ rooms' = [rooms EXCEPT ![workspace_id] = @ \cup {sid}]
               /\ Frame(sid, [f EXCEPT !.pc = "enter_room", !.old_workspace = old_workspace])
               /\ UNCHANGED <<conn, user_info, workspace_users, last>>
    /\ Rest

\* join_workspace from one await to the next, or to its end
JoinResume(sid) ==
    /\ frames[sid].op = "join_workspace"
    /\ LET f == frames[sid]
           workspace_id == f.workspace_id
       IN \/ /\ f.pc = "leave_room"
             /\ \E outcome \in EnterRoomOutcomes(sid) :
                   IF outcome = "entered"
                   THEN /\ rooms' = [rooms EXCEPT ![workspace_id] = @ \cup {sid}]
                        /\ Frame(sid, [f EXCEPT !.pc = "enter_room"])
                        /\ UNCHANGED <<conn, user_info, workspace_users, last>>
                   ELSE /\ Frame(sid, Ended(f, "raised", "enter_room"))
                        /\ last' = Done("join_workspace", sid, workspace_id, f.old_workspace,
                                        NoEmit, FALSE, {})
                        /\ UNCHANGED <<conn, user_info, workspace_users, rooms>>
          \/ /\ f.pc = "enter_room"
             /\ workspace_users' = AddUser(workspace_users, workspace_id, sid)
             /\ IF sid \in DOMAIN user_info
                THEN LET emit == [event |-> "user_joined", room |-> workspace_id,
                                  to |-> Recipients(rooms, workspace_id, sid)]
                     IN /\ user_info' = [user_info EXCEPT ![sid] =
                               [workspace_id |-> workspace_id, user_name |-> f.user_name]]
                        /\ Frame(sid, [f EXCEPT !.pc = "emit", !.emit = emit])
                        /\ UNCHANGED <<conn, rooms, last>>
                ELSE \* self.user_info[sid] raises KeyError
                     /\ Frame(sid, Ended(f, "raised", "KeyError"))
                     /\ last' = Done("join_workspace", sid, workspace_id, f.old_workspace,
                                     NoEmit, FALSE, {})
                     /\ UNCHANGED <<conn, user_info, rooms>>
          \/ /\ f.pc = "emit"
             /\ Frame(sid, Ended(f, "returned", "none"))
             /\ last' = Done("join_workspace", sid, workspace_id, f.old_workspace, f.emit,
                             TRUE, OtherUsers(workspace_users, user_info, workspace_id, sid))
             /\ UNCHANGED <<conn, user_info, workspace_users, rooms>>
    /\ Rest

\* The last statements of leave_workspace: self.user_info[sid]['workspace_id'] = None
LeaveEnd(sid, f) ==
    IF sid \in DOMAIN user_info
    THEN /\ user_info' = [user_info EXCEPT ![sid].workspace_id = None]
         /\ Frame(sid, Ended(f, "returned", "none"))
         /\ last' = Done("leave_workspace", sid, f.workspace_id, None, f.emit, TRUE, {})
    ELSE \* self.user_info[sid] raises KeyError
         /\ user_info' = user_info
         /\ Frame(sid, Ended(f, "raised", "KeyError"))
         /\ last' = Done("leave_workspace", sid, f.workspace_id, None, f.emit, FALSE, {})

\* leave_workspace from its entry to its first await, or to its end
LeaveStart(sid, workspace_id) ==
    /\ conn[sid] = "open"
    /\ ~Suspended(frames[sid])
    /\ LET f == [NoFrame EXCEPT !.op = "leave_workspace", !.workspace_id = workspace_id]
       IN IF workspace_id # None /\ workspace_id \in Keys(workspace_users)
          THEN /\ workspace_users' = Discard(workspace_users, workspace_id, sid)
               /\ rooms' = [rooms EXCEPT ![workspace_id] = @ \ {sid}]
               /\ Frame(sid, [f EXCEPT !.pc = "leave_room"])
               /\ UNCHANGED <<conn, user_info, last>>
          ELSE /\ LeaveEnd(sid, f)
               /\ UNCHANGED <<conn, workspace_users, rooms>>
    /\ Rest

\* leave_workspace from one await to the next, or to its end
LeaveResume(sid) ==
    /\ frames[sid].op = "leave_workspace"
    /\ LET f == frames[sid]
       IN \/ /\ f.pc = "leave_room"
             /\ Frame(sid, [f EXCEPT !.pc = "emit",
                                     !.emit = [event |-> "user_left", room |-> f.workspace_id,
                                               to |-> Recipients(rooms, f.workspace_id, sid)]])
             /\ UNCHANGED <<conn, user_info, workspace_users, rooms, last>>
          \/ /\ f.pc = "emit"
             /\ LeaveEnd(sid, f)
             /\ UNCHANGED <<conn, workspace_users, rooms>>
    /\ Rest

\* The last statements of disconnect, and the server forgetting the connection.
DisconnectEnd(sid, f) ==
    /\ user_info' = [s \in DOMAIN user_info \ {sid} |-> user_info[s]]
    /\ rooms' = [w \in DOMAIN rooms |-> rooms[w] \ {sid}]
    /\ Frame(sid, [f EXCEPT !.disconnect = "returned", !.user_left = NoEmit])
    /\ last' = Done("disconnect", sid, f.user_left.room, None, f.user_left, TRUE, {})

\* disconnect from its entry to its await, or to its end; the handler that
\* is suspended for the same connection stays suspended.
DisconnectStart(sid) ==
    /\ conn[sid] = "open"
    /\ conn' = [conn EXCEPT ![sid] = "closed"]
    /\ LET f == [frames[sid] EXCEPT
                    !.overlap = IF Suspended(frames[sid]) THEN frames[sid].pc ELSE "none"]
           workspace_id == InfoWorkspace(user_info, sid)
       IN IF workspace_id # None /\ workspace_id \in Keys(workspace_users)
          THEN /\ workspace_users' = Discard(workspace_users, workspace_id, sid)
               /\ Frame(sid, [f EXCEPT !.disconnect = "emit",
                                       !.user_left = [event |-> "user_left", room |-> workspace_id,
                                                      to |-> Recipients(rooms, workspace_id, sid)]])
               /\ UNCHANGED <<user_info, rooms, last>>
          ELSE /\ DisconnectEnd(sid, f)
               /\ UNCHANGED workspace_users
    /\ Rest

\* disconnect from its await to its end
DisconnectResume(sid) ==
    /\ frames[sid].disconnect = "emit"
    /\ DisconnectEnd(sid, frames[sid])
    /\ UNCHANGED <<conn, workspace_users>>
    /\ Rest

AwaitNext ==
    \E sid \in AwaitSids :
        \/ Connect(sid)
        \/ \E w \in Workspaces \cup {None} : JoinStart(sid, w, Anonymous)
        \/ JoinResume(sid)
        \/ \E w \in Workspaces \cup {None} : LeaveStart(sid, w)
        \/ LeaveResume(sid)
        \/ DisconnectStart(sid)
        \/ DisconnectResume(sid)
        \/ ItemMoved(sid)

(***************************************************************************)
(* A client drag: item_moved(sid, data) with data = {item_id, x, y}, in an *)
(* application whose engine holds the bodies loaded at startup.            *)
(***************************************************************************)
ItemMovedAt(sid, item_id, pos) ==
    /\ conn[sid] = "open"
    /\ LET r == item_moved(sid)
       IN /\ conn' = r.conn
          /\ user_info' = r.user_info
          /\ workspace_users' = r.workspace_users
          /\ rooms' = r.rooms
          /\ last' = r.last
    /\ moved' = [sid |-> sid, item_id |-> item_id, x |-> pos[1], y |-> pos[2], ticks |-> ticks]
    /\ UNCHANGED <<frames, stepping, forces>>
    /\ UNCHANGED loop_vars
    /\ UNCHANGED physics_vars
    /\ UNCHANGED cluster_vars
    /\ UNCHANGED route_vars

\* The items main.py loads into the engine before the loop starts.
LoadedBodies ==
    << PhysicsBody(1, <<0, 0>>, <<0, 0>>, 1, <<1, 0>>),
       PhysicsBody(2, <<30, 40>>, <<0, 0>>, 1, <<1, 1>>) >>

DragInit ==
    /\ SessionInit /\ LoopIdle /\ ClusterIdle /\ DetailIdle /\ RouteIdle
    /\ bodies = LoadedBodies
    /\ ticks = 0
    /\ calls = 0
    /\ step_out = [op |-> "none", raised |-> FALSE, updates |-> << >>]
    /\ call = NoCall

DragNext ==
    \/ Step
    \/ \E sid \in Sids :
        \/ Connect(sid)
        \/ \E w \in Workspaces : JoinWorkspace(sid, w, Anonymous)
        \/ \E item_id \in BodyIdsOf(LoadedBodies), pos \in RegistryPositions :
              ItemMovedAt(sid, item_id, pos)

(***************************************************************************)
(* The loop task and the request handlers on the one event loop.  step()   *)
(* is followed body by body; a request handler (create_item, delete_item)  *)
(* reaches its registry call only while the loop task is suspended.        *)
(***************************************************************************)
\* A loop task that could also be suspended inside step().
LoopAwaits_MidStep == {"idle", "created", "emit", "sleep", "except_sleep", "done", "step"}

\* The positions at which the task of start_physics_loop does not hold the
\* event loop: before its first run, at an awaited emit, at an awaited sleep,
\* after its end.  physics_engine.step() has no await.
LoopAwaits == {"idle", "created", "emit", "sleep", "except_sleep", "done"}

EventLoopFree == loop_pc \in LoopAwaits

\* The bodies create_item adds: at rest, mass 1.0, with an embedding, which
\* may be a vector of zeros.
CreatedBodies ==
    {PhysicsBody(id, p, <<0, 0>>, 1, e) :
        id \in BodyIds, p \in {<<0, 0>>, <<30, 40>>}, e \in {<<1, 0>>, <<1, 1>>, <<0, 0>>}}

\* create_item: physics_engine.add_body(body)
RequestAddBody(body) == EventLoopFree /\ AddBody(body)

\* delete_item: physics_engine.remove_body(item_id)
RequestRemoveBody(body_id) == EventLoopFree /\ RemoveBody(body_id)

\* `while self.is_running:` entered; the pass calls physics_engine.step().
TickStart ==
    /\ loop_pc \in {"created", "sleep", "except_sleep"}
    /\ ticks < MaxTicks
    /\ is_running' = TRUE
    /\ loop_pc' = "step"
    /\ stepping' = 1
    /\ forces' = << >>
    /\ UNCHANGED <<key_iter, tick, stopped, events, frames, moved>>
    /\ UNCHANGED session_vars
    /\ UNCHANGED physics_vars
    /\ UNCHANGED cluster_vars
    /\ UNCHANGED route_vars

\* The terms of compute_forces(bs[i]): the force each other body puts on it.
PairForces(bs, i) ==
    [j \in DOMAIN bs |-> IF j = i THEN <<0, 0>> ELSE PairForce(bs[i], bs[j])]

\* One iteration of `for body_id, body in self.bodies.items()`.
StepVisit ==
    /\ loop_pc = "step"
    /\ stepping <= Len(bodies)
    /\ IF bodies[stepping].mass = 0
       THEN /\ step_out' = [op |-> "step", raised |-> TRUE, updates |-> << >>]
            /\ ticks' = ticks + 1
            /\ stepping' = 0
            /\ StartTick(TRUE)
            /\ UNCHANGED <<bodies, forces>>
       ELSE /\ bodies' = [bodies EXCEPT ![stepping] = StepBody(bodies, bodies[stepping])]
            /\ forces' = Append(forces, PairForces(bodies, stepping))
            /\ stepping' = stepping + 1
            /\ UNCHANGED <<ticks, step_out, loop_pc, key_iter, tick>>
    /\ UNCHANGED <<calls, call, is_running, stopped, events, frames, moved>>
    /\ UNCHANGED session_vars
    /\ UNCHANGED cluster_vars
    /\ UNCHANGED route_vars

\* The for loop of step() is exhausted: return updates, then the broadcast.
StepReturn ==
    /\ loop_pc = "step"
    /\ stepping > Len(bodies)
    /\ step_out' = [op |-> "step", raised |-> FALSE, updates |-> Updates(bodies)]
    /\ ticks' = ticks + 1
    /\ stepping' = 0
    /\ StartTick(FALSE)
    /\ UNCHANGED <<bodies, calls, call, is_running, stopped, events, frames, moved, forces>>
    /\ UNCHANGED session_vars
    /\ UNCHANGED cluster_vars
    /\ UNCHANGED route_vars

\* One client has connected and joined room 1 before the task is created.
ScheduleInit ==
    /\ conn = [s \in Sids |-> IF s = 1 THEN "open" ELSE "new"]
    /\ user_info = <<[workspace_id |-> 1, user_name |-> Anonymous]>>
    /\ workspace_users = <<[id |-> 1, users |-> {1}]>>
    /\ rooms = [w \in Workspaces |-> IF w = 1 THEN {1} ELSE {}]
    /\ last = [op |-> "init", sid |-> None, ws |-> None, old |-> None, pre |-> {},
               emit |-> NoEmit, ok |-> TRUE, others |-> {}]
    /\ is_running = FALSE
    /\ loop_pc = "created"
    /\ key_iter = NoIter
    /\ tick = [n |-> 0, start |-> {}, sent |-> << >>, fault |-> "none"]
    /\ stopped = FALSE
    /\ events = 0
    /\ PhysicsIdle /\ ClusterIdle /\ DetailIdle /\ RouteIdle

ScheduleNext ==
    \/ TickStart
    \/ StepVisit
    \/ StepReturn
    \/ EmitDone
    \/ \E body \in CreatedBodies : RequestAddBody(body)
    \/ \E body_id \in BodyIds : RequestRemoveBody(body_id)

\* A workspace with some embedded items and no cluster computed yet.
RouteInit ==
    /\ SessionInit /\ LoopIdle /\ PhysicsIdle /\ ClusterIdle /\ DetailIdle
    /\ response = NoResponse
    /\ \E n \in 0..NumRouteItems : store = EmptyStore(n)

RouteNext ==
    \E algorithm \in Algorithms, n_clusters \in RouteNClusters :
        ComputeRoute(algorithm, n_clusters)

vars == <<conn, user_info, workspace_users, rooms, last,
          is_running, loop_pc, key_iter, tick, stopped, events,
          bodies, ticks, calls, step_out, call, built, frames, moved, stepping, forces,
          store, response>>

(***************************************************************************)
(* Spec: the session handlers alone.                                       *)
(***************************************************************************)
Init == SessionInit /\ LoopIdle /\ PhysicsIdle /\ ClusterIdle /\ DetailIdle /\ RouteIdle

Next == SessionNext

Spec == Init /\ [][Next]_vars

(***************************************************************************)
(* SpecAwait: the handlers interleaved at their awaits.                    *)
(***************************************************************************)
SpecAwait == Init /\ [][AwaitNext]_vars

(***************************************************************************)
(* SpecDrag: clients dragging items while the loop steps the engine.       *)
(***************************************************************************)
SpecDrag == DragInit /\ [][DragNext]_vars

(***************************************************************************)
(* SpecSchedule: step() body by body beside the requests that change the   *)
(* registry.                                                               *)
(***************************************************************************)
SpecSchedule == ScheduleInit /\ [][ScheduleNext]_vars

(***************************************************************************)
(* SpecLoop: the loop task interleaved with the membership handlers.       *)
(* SpecLoopFair adds what the event loop guarantees: a task that can run   *)
(* is eventually run, an awaited emit or sleep eventually completes.       *)
(***************************************************************************)
LoopInit ==
    /\ conn = [s \in LoopSids |-> "new"]
    /\ user_info = << >>
    /\ workspace_users = << >>
    /\ rooms = [w \in LoopWorkspaces |-> {}]
    /\ last = [op |-> "init", sid |-> None, ws |-> None, old |-> None, pre |-> {},
               emit |-> NoEmit, ok |-> TRUE, others |-> {}]
    /\ LoopIdle
    /\ PhysicsIdle
    /\ ClusterIdle
    /\ DetailIdle /\ RouteIdle

LoopNext ==
    \/ Startup
    \/ LoopBegin
    \/ EmitDone
    \/ SleepDone
    \/ StopPhysicsLoop
    \/ \E sid \in LoopSids :
        \/ LoopConnect(sid)
        \/ LoopDisconnect(sid)
        \/ \E w \in LoopWorkspaces : LoopJoinWorkspace(sid, w, Anonymous)
        \/ \E w \in LoopWorkspaces : LoopLeaveWorkspace(sid, w)

SpecLoop == LoopInit /\ [][LoopNext]_vars

SpecLoopFair ==
    /\ LoopInit /\ [][LoopNext]_vars
    /\ WF_vars(LoopBegin) /\ WF_vars(EmitDone) /\ WF_vars(SleepDone)

(***************************************************************************)
(* SpecPhysics: the engine alone, under any calls of its operations.       *)
(***************************************************************************)
PhysicsInit == SessionInit /\ LoopIdle /\ PhysicsIdle /\ ClusterIdle /\ DetailIdle /\ RouteIdle

SpecPhysics == PhysicsInit /\ [][PhysicsNext]_vars

(***************************************************************************)
(* SpecColocated: two bodies at rest at one and the same position, and the *)
(* loop calling step() again and again.                                    *)
(***************************************************************************)
ColocatedInit ==
    /\ SessionInit /\ LoopIdle /\ ClusterIdle /\ DetailIdle /\ RouteIdle
    /\ ticks = 0
    /\ calls = 0
    /\ step_out = [op |-> "none", raised |-> FALSE, updates |-> << >>]
    /\ call = NoCall
    /\ \E p \in Positions, m1, m2 \in {1, 2}, e1, e2 \in Embeddings :
          bodies = << PhysicsBody(1, p, <<0, 0>>, m1, e1), PhysicsBody(2, p, <<0, 0>>, m2, e2) >>

SpecColocated == ColocatedInit /\ [][Step]_vars

(***************************************************************************)
(* SpecRegistry: the registry operations and the neighbour query.          *)
(***************************************************************************)
SpecRegistry == PhysicsInit /\ [][RegistryNext]_vars

(***************************************************************************)
(* SpecClusters: compute_clusters called on every input of the model.      *)
(***************************************************************************)
ClusterInit == SessionInit /\ LoopIdle /\ PhysicsIdle /\ ClusterIdle /\ DetailIdle /\ RouteIdle

SpecClusters == ClusterInit /\ [][ClusterNext]_vars

(***************************************************************************)
(* SpecBuild: _build_clusters called on every label assignment of the      *)
(* model.                                                                  *)
(***************************************************************************)
SpecBuild == ClusterInit /\ [][BuildNext]_vars

(***************************************************************************)
(* SpecRoute: requests to the compute route of one workspace.              *)
(***************************************************************************)
SpecRoute == RouteInit /\ [][RouteNext]_vars

(***************************************************************************)
(* Session claims.                                                         *)
(***************************************************************************)

\* C1: after any sequence of connect, join_workspace, leave_workspace and
\* disconnect events, every connection id is in the member set of at most
\* one room.
C1_AtMostOneRoom == \A sid \in Sids : Cardinality(RoomsOf(sid)) <= 1

\* C2: when a connection recorded in (and a member of) workspace A joins a
\* workspace B # A, it is afterwards out of A's member set, in B's member
\* set, and its recorded workspace is B.
C2_JoinMovesConnection ==
    (/\ last.op = "join_workspace" /\ last.ok
     /\ last.old # None /\ last.old # last.ws /\ last.old \in last.pre)
    => /\ last.sid \notin Members(last.old)
       /\ last.sid \in Members(last.ws)
       /\ InfoWorkspace(user_info, last.sid) = last.ws

\* A connection that was a member of A has just joined B # A.
C2_Moved ==
    /\ last.op = "join_workspace" /\ last.ok
    /\ last.old # None /\ last.old # last.ws /\ last.old \in last.pre
    /\ Cardinality(Members(last.ws)) = 2

\* C3: a point event sent by a member s of room R is delivered to every
\* other member of R and never to s.
C3_RelayToRoom ==
    last.op \in PointEvents
    => /\ last.sid \notin last.emit.to
       /\ \A R \in RoomsOf(last.sid) : (Members(R) \ {last.sid}) \subseteq last.emit.to

\* C4: after disconnect(c), c is in no room's member set, no metadata is kept
\* for c, and the remaining members of a room c was in got user_left.
C4_DisconnectCleans ==
    last.op = "disconnect"
    => /\ RoomsOf(last.sid) = {}
       /\ last.sid \notin DOMAIN user_info
       /\ \A R \in last.pre :
            Members(R) \ {last.sid} # {}
            => /\ last.emit.event = "user_left"
               /\ (Members(R) \ {last.sid}) \subseteq last.emit.to

\* C5: join_workspace(c, W, name) returns exactly the members of W other than
\* c, each with its display name, and emits user_joined to every existing
\* member of W but not to c.
C5_JoinReturnsOthers ==
    (last.op = "join_workspace" /\ last.ok)
    => /\ last.others = {[user_id |-> uid, user_name |-> InfoName(user_info, uid)] :
                            uid \in Members(last.ws) \ {last.sid}}
       /\ last.emit.event = "user_joined"
       /\ last.emit.to = Members(last.ws) \ {last.sid}

(***************************************************************************)
(* Loop claims.                                                            *)
(***************************************************************************)

\* C6: on every tick step() is invoked once and its result is emitted exactly
\* once to every room that existed at the start of the tick, whatever
\* handlers ran during the awaits of the broadcast (ticks in which step() or
\* an emit itself failed aside).
C6_EveryRoomEmitted ==
    (loop_pc \in {"sleep", "except_sleep"} /\ tick.fault \notin {"step", "emit"})
    => \A w \in tick.start :
          Cardinality({i \in DOMAIN tick.sent : tick.sent[i] = w}) = 1

\* C7: a tick in which step() or a broadcast raised does not end the loop:
\* unless the loop is stopped, a later tick runs step() again.
C7_LoopSurvivesError ==
    \A n \in {0, 1} :
        (tick.fault # "none" /\ tick.n = n) ~> (tick.n # n \/ ~is_running)

\* A tick has raised while the loop was not stopped.
C7_TickRaised == loop_pc = "except_sleep" /\ tick.fault # "none" /\ is_running

\* C8: once stop_physics_loop() has been called no further tick starts, and
\* the loop task eventually terminates.
C8_StopStopsLoop ==
    /\ [][stopped => tick'.n = tick.n]_vars
    /\ stopped ~> (loop_pc = "done")

(***************************************************************************)
(* Engine claims.                                                          *)
(***************************************************************************)
Speed2(b) == b.vx * b.vx + b.vy * b.vy

\* The square of the distance between two bodies.
Dist2(a, b) == (a.x - b.x) * (a.x - b.x) + (a.y - b.y) * (a.y - b.y)

\* The bodies 1 and 2 are apart, by no more than min_repulsion_distance.
Apart == Dist2(BodyOf(bodies, 1), BodyOf(bodies, 2)) > 0

InRange ==
    Dist2(BodyOf(bodies, 1), BodyOf(bodies, 2))
        <= min_repulsion_distance * min_repulsion_distance

\* C9: after every step() that returns, the speed of every body of the
\* registry is at most max_velocity.
C9_SpeedCapped ==
    [][(ticks' # ticks /\ ~step_out'.raised)
       => \A i \in DOMAIN bodies' : Speed2(bodies'[i]) <= max_velocity * max_velocity]_vars

\* step() has returned and has cut the velocity of a body down to the cap.
C9_Capped ==
    /\ step_out.op = "step" /\ ~step_out.raised
    /\ \E i \in DOMAIN step_out.updates :
          /\ Speed2(step_out.updates[i]) <= max_velocity * max_velocity
          /\ Speed2(step_out.updates[i]) > (max_velocity - 2) * (max_velocity - 2)

\* One more step() would leave every body where it is, at the same velocity.
Settled == step(bodies).bodies = bodies

\* C10: two bodies placed at the same position, at rest, move apart over
\* successive step() calls: once the calls have brought them to where further
\* calls change nothing, their distance is greater than 0 and at most
\* min_repulsion_distance.
C10_ColocatedSeparate == (ticks >= 1 /\ Settled) => (Apart /\ InRange)

\* The sum of the repulsion terms alone on body, as <<fx, fy>>.
RECURSIVE RepulsionTerms(_, _, _)
RepulsionTerms(bs, body, j) ==
    IF j > Len(bs) THEN <<0, 0>>
    ELSE LET rest == RepulsionTerms(bs, body, j + 1)
             other == bs[j]
         IN IF other.id = body.id THEN rest
            ELSE << rest[1] - TDiv((other.x - body.x) * repulsion_force(body, other),
                                   ForceDistance(body, other)),
                    rest[2] - TDiv((other.y - body.y) * repulsion_force(body, other),
                                   ForceDistance(body, other)) >>

\* C11: a pair in which a body has no embedding adds no attraction, only its
\* repulsion term; in a registry without embeddings the net force on every
\* body is the sum of the repulsion terms alone.
C11_NoEmbeddingRepulsionOnly ==
    \A i \in DOMAIN bodies :
        /\ \A j \in DOMAIN bodies \ {i} :
              (bodies[i].embedding = NoEmbedding \/ bodies[j].embedding = NoEmbedding)
              => /\ attraction_force(bodies[i], bodies[j]) = 0
                 /\ PairForce(bodies[i], bodies[j])
                        = RepulsionTerms(<<bodies[j]>>, bodies[i], 1)
        /\ (\A j \in DOMAIN bodies : bodies[j].embedding = NoEmbedding)
           => compute_forces(bodies, bodies[i]) = RepulsionTerms(bodies, bodies[i], 1)

\* A body without an embedding is pushed away by a body with one that is
\* close enough to attract it.
C11_Repelled ==
    \E i, j \in DOMAIN bodies :
        /\ bodies[i].embedding = NoEmbedding /\ bodies[j].embedding # NoEmbedding
        /\ repulsion_force(bodies[i], bodies[j]) > 0
        /\ PairForce(bodies[i], bodies[j]) # <<0, 0>>

\* C17: step() never raises, whatever the registry holds: every call of
\* step() returns.
C17_StepNeverRaises == step_out.op = "step" => ~step_out.raised

(***************************************************************************)
(* Registry and neighbour query claims.                                    *)
(***************************************************************************)

\* The place of the body with this id in the registry.
IndexOf(bs, id) == CHOOSE i \in DOMAIN bs : bs[i].id = id

\* C12: get_nearest_neighbors(id, ...) never returns an entry for id itself,
\* and its entries are in non-increasing order of similarity.
C12_NeighborsSortedWithoutSelf ==
    call.op = "get_nearest_neighbors"
    => /\ \A k \in DOMAIN call.out : call.out[k].id # call.id
       /\ \A k \in 1..(Len(call.out) - 1) :
             call.out[k].similarity >= call.out[k + 1].similarity

\* A query has returned two neighbours of different similarity, the more
\* similar one first although it comes later in the registry.
C12_Reordered ==
    /\ call.op = "get_nearest_neighbors"
    /\ Len(call.out) >= 2
    /\ call.out[1].similarity > call.out[2].similarity
    /\ IndexOf(bodies, call.out[1].id) > IndexOf(bodies, call.out[2].id)

\* The ids of the entries of the last query's result.
ReturnedIds == {call.out[k].id : k \in DOMAIN call.out}

\* The bodies other than the queried one that are within max_distance of it.
InReach ==
    {i \in DOMAIN bodies :
        /\ bodies[i].id # call.id
        /\ Dist2(bodies[i], BodyOf(bodies, call.id)) <= call.max_distance * call.max_distance}

\* C13 as stated: get_nearest_neighbors returns exactly the other bodies
\* within max_distance whose similarity (0 when an embedding is missing) is
\* strictly greater than min_similarity.
C13_NeighborsAbove ==
    (call.op = "get_nearest_neighbors" /\ call.id \in BodyIdsOf(bodies))
    => ReturnedIds =
          {bodies[i].id : i \in {j \in InReach :
              NeighborSimilarity(BodyOf(bodies, call.id), bodies[j]) > call.min_similarity}}

\* C13 as amended: get_nearest_neighbors returns, once each, exactly the other
\* bodies within max_distance whose similarity (0 when an embedding is
\* missing) is at least min_similarity.
C13_NeighborsAtLeast ==
    (call.op = "get_nearest_neighbors" /\ call.id \in BodyIdsOf(bodies))
    => /\ ReturnedIds =
             {bodies[i].id : i \in {j \in InReach :
                 NeighborSimilarity(BodyOf(bodies, call.id), bodies[j]) >= call.min_similarity}}
       /\ Len(call.out) = Cardinality(ReturnedIds)

\* A query has returned a body whose similarity equals min_similarity and has
\* left out a body that is too far away.
C13_AtThreshold ==
    /\ call.op = "get_nearest_neighbors"
    /\ \E k \in DOMAIN call.out :
          call.out[k].similarity = call.min_similarity /\ call.min_similarity > 0
    /\ \E i \in DOMAIN bodies : bodies[i].id # call.id /\ i \notin InReach

\* Every body of the registry before the last call, but the one with the
\* call's id, is in the registry as it was.
OthersUnchanged ==
    \A i \in DOMAIN call.pre :
        call.pre[i].id # call.id
        => \E j \in DOMAIN bodies : bodies[j] = call.pre[i]

\* C18: the registry holds at most one body per id, and add_body stores its
\* body under the body's id, in place of a body that was there, and leaves
\* every other body as it was.
C18_AddBodyOverwrites ==
    /\ Cardinality(BodyIdsOf(bodies)) = Len(bodies)
    /\ call.op = "add_body"
       => /\ BodyIdsOf(bodies) = BodyIdsOf(call.pre) \cup {call.id}
          /\ BodyOf(bodies, call.id) = call.body
          /\ OthersUnchanged

\* add_body has replaced a body by one with another position, velocity and
\* embedding, beside a second body.
C18_Replaced ==
    /\ call.op = "add_body"
    /\ call.id \in BodyIdsOf(call.pre)
    /\ Len(call.pre) >= 2
    /\ LET old == BodyOf(call.pre, call.id)
       IN /\ <<old.x, old.y>> # <<call.body.x, call.body.y>>
          /\ <<old.vx, old.vy>> # <<call.body.vx, call.body.vy>>
          /\ old.embedding # call.body.embedding

\* C19: on an id that is not in the registry, remove_body and
\* update_body_position leave the registry as it is and get_nearest_neighbors
\* returns the empty list.
C19_UnknownIdNoOp ==
    call.id \notin BodyIdsOf(call.pre)
    => /\ call.op \in {"remove_body", "update_body_position"} => bodies = call.pre
       /\ call.op = "get_nearest_neighbors" => call.out = << >>

\* update_body_position was called with an unknown id on a registry that
\* holds a body.
C19_UnknownUpdate ==
    /\ call.op = "update_body_position"
    /\ call.id \notin BodyIdsOf(call.pre)
    /\ call.pre # << >>

\* C20: update_body_position(id, x, y) on a body of the registry sets its
\* position to (x, y) and its velocity to (0, 0), and leaves the rest of the
\* body and every other body as they were.
C20_UpdateSetsPosition ==
    (call.op = "update_body_position" /\ call.id \in BodyIdsOf(call.pre))
    => /\ BodyOf(bodies, call.id)
            = [BodyOf(call.pre, call.id) EXCEPT !.x = call.x, !.y = call.y, !.vx = 0, !.vy = 0]
       /\ BodyOf(bodies, call.id).vx = 0 /\ BodyOf(bodies, call.id).vy = 0
       /\ BodyOf(bodies, call.id).mass = BodyOf(call.pre, call.id).mass
       /\ BodyOf(bodies, call.id).embedding = BodyOf(call.pre, call.id).embedding
       /\ Len(bodies) = Len(call.pre)
       /\ OthersUnchanged

\* A moving body has been dragged to another position, beside a second body.
C20_Dragged ==
    /\ call.op = "update_body_position"
    /\ call.id \in BodyIdsOf(call.pre)
    /\ Len(call.pre) >= 2
    /\ BodyOf(call.pre, call.id).vx # 0
    /\ <<BodyOf(call.pre, call.id).x, BodyOf(call.pre, call.id).y>> # <<call.x, call.y>>

(***************************************************************************)
(* Clustering claims.                                                      *)
(***************************************************************************)

\* C14: compute_clusters returns the empty list, without raising, whenever
\* fewer than 2 items or fewer than 2 embeddings are supplied, whatever the
\* algorithm.
C14_TooFewGivesEmpty ==
    (built.algorithm # "none" /\ (Len(built.items) < 2 \/ built.n_embeddings < 2))
    => (built.out = << >> /\ ~built.raised)

\* K-means was asked for two clusters of two items with one embedding.
C14_OneEmbedding ==
    /\ built.algorithm = "kmeans" /\ built.n_clusters = 2
    /\ Len(built.items) = 2 /\ built.n_embeddings = 1
    /\ built.out = << >> /\ ~built.raised

\* The ids of the items of the k-th returned cluster.
ItemIdsOf(k) == {built.out[k].item_ids[j] : j \in DOMAIN built.out[k].item_ids}

\* C15: K-means with n_clusters = k on n >= k items, one embedding each,
\* returns exactly k clusters, and every item is in the item_ids of exactly
\* one of them, whenever K-means uses all of its k labels.
C15_KMeansAssignsAll ==
    (/\ built.algorithm = "kmeans" /\ built.n_clusters # None
     /\ Len(built.items) >= 2 /\ Len(built.items) >= built.n_clusters
     /\ built.n_embeddings = Len(built.items)
     /\ {built.labels[i] : i \in DOMAIN built.labels} = 0..(built.n_clusters - 1))
    => /\ ~built.raised
       /\ Len(built.out) = built.n_clusters
       /\ \A i \in DOMAIN built.items :
             Cardinality({k \in DOMAIN built.out : built.items[i].id \in ItemIdsOf(k)}) = 1

\* The items of the k-th returned cluster.
MembersOf(k) == SelectSeq(built.items, LAMBDA item : item.id \in ItemIdsOf(k))

\* The square of the distance, in tenths, of an item from a cluster's center.
CenterDist2(item, cluster) ==
    (10 * item.position_x - cluster.center_x) * (10 * item.position_x - cluster.center_x)
    + (10 * item.position_y - cluster.center_y) * (10 * item.position_y - cluster.center_y)

\* a is the quotient sum / n cut to a whole number of tenths.
IsMean(a, sum, n) == n * a <= 10 * sum /\ 10 * sum < n * (a + 1)

\* C16: every returned cluster has as center the mean of its members'
\* positions, and as radius the largest member distance from that center
\* plus the padding of 100.
C16_CenterAndRadius ==
    \A k \in DOMAIN built.out :
        LET cluster == built.out[k]
            members == MembersOf(k)
            max_dist == cluster.radius - cluster_padding
        IN /\ IsMean(cluster.center_x, SumOf(members, "position_x", 1), Len(members))
           /\ IsMean(cluster.center_y, SumOf(members, "position_y", 1), Len(members))
           /\ max_dist >= 0
           /\ \A j \in DOMAIN members : CenterDist2(members[j], cluster) <= max_dist * max_dist
           /\ \E j \in DOMAIN members :
                 \/ max_dist = 0
                 \/ CenterDist2(members[j], cluster) > (max_dist - 1) * (max_dist - 1)

\* A cluster of three items at three positions has been returned; its center
\* is not a whole number of tenths.
C16_ThreeMembers ==
    \E k \in DOMAIN built.out :
        /\ Len(built.out[k].item_ids) = 3
        /\ built.out[k].center_x = 500 /\ built.out[k].center_y = 333
        /\ built.out[k].radius > cluster_padding

(***************************************************************************)
(* Claims about the handlers interleaved at their awaits.                  *)
(***************************************************************************)
\* The last handler named a connection or a room the broadcaster does not
\* know: no metadata for the connection, no such room, or a point event
\* from a connection that is in no room.
UnknownTarget ==
    \/ last.op \in {"join_workspace", "leave_workspace"} /\ last.sid \notin DOMAIN user_info
    \/ last.op = "leave_workspace" /\ last.ws \notin Keys(workspace_users)
    \/ last.op \in PointEvents /\ last.pre = {}

\* C21: a session operation that names a connection or a room the
\* broadcaster does not know is silently ignored: it raises no error and
\* changes no room membership.
C21_UnknownIgnored ==
    UnknownTarget => (frames[last.sid].error = "none" /\ RoomsOf(last.sid) = last.pre)

\* C30: when a disconnect handler has run while the join_workspace handler
\* of the same connection was suspended at leave_room or enter_room, then
\* once both have finished the connection is in no room's member set and
\* the join handler has not failed on the missing connection metadata.
C30_DisconnectDuringJoin ==
    \A sid \in AwaitSids :
        (/\ frames[sid].op = "join_workspace"
         /\ frames[sid].overlap \in {"leave_room", "enter_room"}
         /\ frames[sid].pc \in {"returned", "raised"}
         /\ frames[sid].disconnect = "returned")
        => (RoomsOf(sid) = {} /\ frames[sid].error # "KeyError")

(***************************************************************************)
(* Claims about client drags.                                              *)
(***************************************************************************)
\* The last handler was an item_moved for an item the engine holds, and the
\* engine has not stepped since.
JustDragged ==
    /\ last.op = "item_moved"
    /\ moved.ticks = ticks
    /\ moved.item_id \in BodyIdsOf(bodies)

\* C22: a client drag is relayed to the room and re-anchors the simulated
\* body: after the event is handled the engine's body for the item has the
\* dragged position and velocity zero.
C22_DragReanchors ==
    JustDragged =>
        LET body == BodyOf(bodies, moved.item_id)
        IN /\ last.ws # None => (last.emit.event = "item_moved" /\ last.emit.room = last.ws)
           /\ body.x = moved.x /\ body.y = moved.y
           /\ body.vx = 0 /\ body.vy = 0

(***************************************************************************)
(* Claims about the scheduling of step().                                  *)
(***************************************************************************)
\* C23: registry mutations are serialized against step(): from the start of
\* a step() call to its end no add_body, remove_body or update_body_position
\* takes effect; the loop task yields only at its emit and sleep awaits.
C23_StepSerialized == [][loop_pc = "step" => calls' = calls]_vars

\* A second step() call is half way through a registry of two bodies.
C23_MidStep == loop_pc = "step" /\ stepping = 2 /\ Len(bodies) = 2 /\ ticks >= 1

\* C24: within one step() the force model is symmetric: the force put on a
\* because of b is equal in magnitude and opposite in direction to the force
\* put on b because of a.
C24_ForcesSymmetric ==
    \A i, j \in DOMAIN forces :
        i # j => (/\ forces[i][j][1] = -forces[j][i][1]
                  /\ forces[i][j][2] = -forces[j][i][2])

(***************************************************************************)
(* Claims about the similarity of embeddings.                              *)
(***************************************************************************)
ZeroNorm(embedding) == embedding # NoEmbedding /\ Dot(embedding, embedding, 1) = 0

\* C25: compute_similarity returns 0 whenever either embedding has zero
\* norm, so a body with a zero-norm embedding has similarity 0 to every
\* other body and is not attracted by any.
C25_ZeroNormSimilarity ==
    \A i, j \in DOMAIN bodies :
        (/\ i # j
         /\ bodies[i].embedding # NoEmbedding /\ bodies[j].embedding # NoEmbedding
         /\ ZeroNorm(bodies[i].embedding) \/ ZeroNorm(bodies[j].embedding))
        => (/\ compute_similarity(bodies[i].embedding, bodies[j].embedding) = 0
            /\ attraction_force(bodies[i], bodies[j]) = 0)

(***************************************************************************)
(* Claims about _build_clusters.                                           *)
(***************************************************************************)
\* The item ids of the k-th cluster _build_clusters returned.
BuiltIds(k) == {built.out[k].item_ids[m] : m \in DOMAIN built.out[k].item_ids}

\* C26: for every label assignment given to _build_clusters, every returned
\* cluster has at least 2 item_ids, no item labelled -1 is in a returned
\* cluster, and the item_ids of distinct returned clusters are disjoint.
C26_ClustersWellFormed ==
    built.algorithm = "_build_clusters" =>
        /\ \A k \in DOMAIN built.out :
              /\ Len(built.out[k].item_ids) >= 2
              /\ \A id \in BuiltIds(k) : built.labels[id] # noise
        /\ \A k1, k2 \in DOMAIN built.out : k1 # k2 => BuiltIds(k1) \cap BuiltIds(k2) = {}

\* Two clusters were returned for labels with a noise item.
C26_TwoClustersAndNoise ==
    /\ built.algorithm = "_build_clusters"
    /\ Len(built.out) = 2
    /\ \E i \in DOMAIN built.labels : built.labels[i] = noise

\* C27: cluster colors are assigned cyclically by cluster order: the i-th
\* cluster of the returned list (0-based) has color CLUSTER_COLORS[i mod 10],
\* whatever the noise labels and dropped groups, so the colors of at most 10
\* returned clusters are pairwise distinct.
C27_ColorsByClusterOrder ==
    built.algorithm = "_build_clusters" =>
        /\ \A k \in DOMAIN built.out : built.out[k].color = (k - 1) % num_colors
        /\ Len(built.out) <= num_colors =>
              \A k1, k2 \in DOMAIN built.out :
                  k1 # k2 => built.out[k1].color # built.out[k2].color

(***************************************************************************)
(* Claims about the compute route.                                         *)
(***************************************************************************)
\* C28: a clustering request over a workspace with fewer than 2 embedded
\* items ends with an empty cluster list as its result, not with an error.
C28_TooFewGivesEmptyList ==
    (/\ response.status # 0
     /\ ValidRequest(response.algorithm, response.n_clusters)
     /\ response.pre.n < 2)
    => (response.status = 200 /\ response.body = << >>)

\* C29: a clustering configuration whose algorithm name is neither "dbscan"
\* nor "kmeans" is rejected with an error before any clustering runs and
\* before any stored cluster or item assignment is modified; it is never
\* run as one of the two known algorithms.
C29_UnknownAlgorithmRejected ==
    (response.status # 0 /\ response.algorithm \notin {"dbscan", "kmeans"})
    => (response.status = 422 /\ response.ran = "none" /\ store = response.pre)

\* A request with an unknown algorithm name came to a workspace that has
\* stored clusters.
C29_RejectedAfterClusters ==
    /\ response.algorithm = "spectral"
    /\ response.status = 422
    /\ Len(store.clusters) > 0

====
